---- MODULE Spec2Model ----
(***************************************************************************)
(* Model of the useShortcutRecorder hook (src/src/hook.ts) with its        *)
(* helpers (src/src/utils.ts) and tables (src/src/constants.ts).           *)
(*                                                                         *)
(* One state of the model is one committed render of the hook: the six     *)
(* useState cells plus the options the hook was constructed with.  One     *)
(* action is one DOM event or one call of a returned method, followed by   *)
(* the render that commits its state updates.                              *)
(*                                                                         *)
(* How a key handler's updates are committed.  handleKeyDown/handleKeyUp   *)
(* pass two updater functions to setActiveModKeys and setActiveNonModKey,  *)
(* and those updaters themselves call setError, setShortcut, onChange,     *)
(* resetRecording and stopRecording.  The values the updaters read through *)
(* the closure (shortcut, activeModKeys, activeNonModKey in                *)
(* isValidShortcut and in the arguments of updateShortcutFromActiveKeys)   *)
(* are those of the render before the event.  The setters called inside an *)
(* updater are applied in call order; a setActiveModKeys(new Set()) or     *)
(* setActiveNonModKey("") issued from inside an updater (resetRecording)   *)
(* is applied after the value the updater returns, so it wins.  This is    *)
(* the order the repository's own test hook.test.ts:183-204 observes       *)
(* (shortcut = [] after the release of a lone key that fails validation).  *)
(***************************************************************************)
EXTENDS Integers, Sequences, FiniteSets, TLC

VARIABLES
    shortcut,          \* hook.ts:24  in-progress shortcut (sequence of tokens)
    savedShortcut,     \* hook.ts:25  last finalized shortcut
    isRecording,       \* hook.ts:26
    error,             \* hook.ts:27  error.code
    activeModKeys,     \* hook.ts:31  set of canonical modifier names
    activeNonModKey,   \* hook.ts:32  "" when no trigger key
    options,           \* hook.ts:12-19 the options of this hook instance
    policy,            \* hook.ts:21-70 the limits and sets compiled from them
    isMac,             \* hook.ts:72  isMacOS()
    ev,                \* last event or call: [op, key, prevNonModKey]
    fin,               \* isValidShortcut in the last step: "none", "ok", "fail"
    raised,            \* error codes passed to setError by the last step, in order
    calls              \* arguments of the onChange calls of the last step

vars == <<shortcut, savedShortcut, isRecording, error, activeModKeys,
          activeNonModKey, options, policy, isMac, ev, fin, raised, calls>>

----------------------------------------------------------------------------
(* constants.ts *)

NONE                  == "NONE"
MAX_MOD_KEYS_EXCEEDED == "MAX_MOD_KEYS_EXCEEDED"
MOD_KEY_NOT_ALLOWED   == "MOD_KEY_NOT_ALLOWED"
KEY_NOT_ALLOWED       == "KEY_NOT_ALLOWED"
MIN_MOD_KEYS_REQUIRED == "MIN_MOD_KEYS_REQUIRED"
SHORTCUT_NOT_ALLOWED  == "SHORTCUT_NOT_ALLOWED"

ShortcutRecorderErrorCode ==
    {NONE, MAX_MOD_KEYS_EXCEEDED, MOD_KEY_NOT_ALLOWED, KEY_NOT_ALLOWED,
     MIN_MOD_KEYS_REQUIRED, SHORTCUT_NOT_ALLOWED}

MOD_KEYS_MAP ==
    [k \in {"ControlLeft", "ControlRight", "ShiftLeft", "ShiftRight",
            "AltLeft", "AltRight", "MetaLeft", "MetaRight",
            "Control", "Meta", "Shift", "Alt"} |->
        CASE k \in {"ControlLeft", "ControlRight", "Control"} -> "Control"
          [] k \in {"ShiftLeft", "ShiftRight", "Shift"}       -> "Shift"
          [] k \in {"AltLeft", "AltRight", "Alt"}             -> "Alt"
          [] k \in {"MetaLeft", "MetaRight", "Meta"}          -> "Meta"]

MOD_KEYS_ORDER == <<"Control", "Shift", "Alt", "Meta">>

----------------------------------------------------------------------------
(* utils.ts *)

isModKey(key) == key \in DOMAIN MOD_KEYS_MAP

\* getOrderedKeys that pushes the trigger key before the modifiers
getOrderedKeys_TriggerFirst(nonModKey, modKeys) ==
    (IF nonModKey # "" THEN <<nonModKey>> ELSE <<>>)
        \o SelectSeq(MOD_KEYS_ORDER, LAMBDA modifier : modifier \in modKeys)

getOrderedKeys(nonModKey, modKeys) ==
    SelectSeq(MOD_KEYS_ORDER, LAMBDA modifier : modifier \in modKeys)
        \o (IF nonModKey # "" THEN <<nonModKey>> ELSE <<>>)

\* Array.prototype.join("") as used at hook.ts:62 and hook.ts:180
RECURSIVE Join(_)
Join(keys) == IF keys = <<>> THEN "" ELSE Head(keys) \o Join(Tail(keys))

----------------------------------------------------------------------------
(* hook.ts:21-70: what a render computes from the options o.  The options  *)
(* of one hook instance are fixed, so every render computes the same       *)
(* values; the model computes them once, in Init, and keeps them in the    *)
(* variable policy.                                                        *)

Elems(seq) == {seq[i] : i \in DOMAIN seq}

\* hook.ts:21
clampMaxModKeys(o) ==
    IF o.maxModKeys < 0 \/ o.maxModKeys > 4 THEN 4 ELSE o.maxModKeys

\* clampMinModKeys without the comparison with maxModKeys
clampMinModKeys_NoMaxTest(o) ==
    IF o.minModKeys < 0 \/ o.minModKeys > 4 THEN 0 ELSE o.minModKeys

\* hook.ts:22
clampMinModKeys(o) ==
    IF o.minModKeys < 0 \/ o.minModKeys > 4 \/ o.minModKeys > clampMaxModKeys(o)
    THEN 0 ELSE o.minModKeys

\* hook.ts:35-37, the set as built, before the guard of hook.ts:68
buildExcludedModKeysSet(o) ==
    {MOD_KEYS_MAP[key] : key \in {k \in Elems(o.excludedModKeys) : isModKey(k)}}

\* hook.ts:39-41
buildExcludedKeysSet(o) == {key \in Elems(o.excludedKeys) : ~isModKey(key)}

\* serializeShortcut that joins the trigger key before the modifiers
serializeShortcut_TriggerFirst(nonModKey, modKeyList) ==
    Join(<<nonModKey>> \o getOrderedKeys("", modKeyList))

\* hook.ts:61-62
serializeShortcut(nonModKey, modKeyList) ==
    Join(getOrderedKeys(nonModKey, modKeyList))

\* hook.ts:44-62, the callback of flatMap: the loop from position i on
RECURSIVE compileShortcut(_, _, _, _, _, _)
compileShortcut(o, sc, i, modKeyList, numNonModKeys, nonModKey) ==
    IF i > Len(sc)
    THEN IF Cardinality(modKeyList) < clampMinModKeys(o) \/ numNonModKeys # 1
         THEN {}
         ELSE {serializeShortcut(nonModKey, modKeyList)}
    ELSE LET key == sc[i] IN
         IF isModKey(key)
         THEN IF MOD_KEYS_MAP[key] \in buildExcludedModKeysSet(o)
                 \/ Cardinality(modKeyList) > clampMaxModKeys(o)
              THEN {}
              ELSE compileShortcut(o, sc, i + 1, modKeyList \cup {MOD_KEYS_MAP[key]},
                                   numNonModKeys, nonModKey)
         ELSE IF key \in buildExcludedKeysSet(o) \/ numNonModKeys + 1 > 1
              THEN {}
              ELSE compileShortcut(o, sc, i + 1, modKeyList, numNonModKeys + 1, key)

\* hook.ts:43-63
buildExcludedShortcutsSet(o) ==
    UNION {compileShortcut(o, o.excludedShortcuts[j], 1, {}, 0, "") :
               j \in DOMAIN o.excludedShortcuts}

\* hook.ts:66
numUsableModKeys(o) == Len(MOD_KEYS_ORDER) - Cardinality(buildExcludedModKeysSet(o))

\* guardExcludedModKeysSet without the clear() of hook.ts:68-70
guardExcludedModKeysSet_NoGuard(o) == buildExcludedModKeysSet(o)

\* hook.ts:66-70, the set every handler sees
guardExcludedModKeysSet(o) ==
    IF numUsableModKeys(o) < clampMinModKeys(o) THEN {} ELSE buildExcludedModKeysSet(o)

useShortcutRecorder(o) ==
    [maxModKeys           |-> clampMaxModKeys(o),
     minModKeys           |-> clampMinModKeys(o),
     excludedModKeysSet   |-> guardExcludedModKeysSet(o),
     excludedKeysSet      |-> buildExcludedKeysSet(o),
     excludedShortcutsSet |-> buildExcludedShortcutsSet(o)]

maxModKeys           == policy.maxModKeys
minModKeys           == policy.minModKeys
excludedModKeysSet   == policy.excludedModKeysSet
excludedKeysSet      == policy.excludedKeysSet
excludedShortcutsSet == policy.excludedShortcutsSet

----------------------------------------------------------------------------
(* hook.ts:165-204 *)

\* isValidShortcut without the check of hook.ts:168-172
isValidShortcut_NoMinCheck ==
    LET numModKeys == Cardinality(activeModKeys)
        shortcutStr == Join(getOrderedKeys(activeNonModKey, activeModKeys))
    IN  IF numModKeys > maxModKeys
            THEN [ok |-> FALSE, err |-> MAX_MOD_KEYS_EXCEEDED]
        ELSE IF shortcutStr \in excludedShortcutsSet
            THEN [ok |-> FALSE, err |-> SHORTCUT_NOT_ALLOWED]
        ELSE IF activeModKeys \cap excludedModKeysSet # {}
            THEN [ok |-> FALSE, err |-> MOD_KEY_NOT_ALLOWED]
        ELSE IF activeNonModKey = ""
            THEN [ok |-> FALSE,
                  err |-> IF activeNonModKey \in excludedKeysSet
                          THEN KEY_NOT_ALLOWED ELSE ""]
        ELSE [ok |-> TRUE, err |-> ""]

\* isValidShortcut with the check of hook.ts:195-201 moved to the front
isValidShortcut_TriggerCheckFirst ==
    LET numModKeys == Cardinality(activeModKeys)
        shortcutStr == Join(getOrderedKeys(activeNonModKey, activeModKeys))
    IN  IF activeNonModKey = ""
            THEN [ok |-> FALSE,
                  err |-> IF activeNonModKey \in excludedKeysSet
                          THEN KEY_NOT_ALLOWED ELSE ""]
        ELSE IF numModKeys < minModKeys
            THEN [ok |-> FALSE, err |-> MIN_MOD_KEYS_REQUIRED]
        ELSE IF numModKeys > maxModKeys
            THEN [ok |-> FALSE, err |-> MAX_MOD_KEYS_EXCEEDED]
        ELSE IF shortcutStr \in excludedShortcutsSet
            THEN [ok |-> FALSE, err |-> SHORTCUT_NOT_ALLOWED]
        ELSE IF activeModKeys \cap excludedModKeysSet # {}
            THEN [ok |-> FALSE, err |-> MOD_KEY_NOT_ALLOWED]
        ELSE [ok |-> TRUE, err |-> ""]

\* ok: the value returned; err: the code passed to setError, "" when
\* setError is not called.  Reads activeModKeys and activeNonModKey of the
\* render the handler was created in.
isValidShortcut ==
    LET numModKeys == Cardinality(activeModKeys)
        shortcutStr == Join(getOrderedKeys(activeNonModKey, activeModKeys))
    IN  IF numModKeys < minModKeys
            THEN [ok |-> FALSE, err |-> MIN_MOD_KEYS_REQUIRED]
        ELSE IF numModKeys > maxModKeys
            THEN [ok |-> FALSE, err |-> MAX_MOD_KEYS_EXCEEDED]
        ELSE IF shortcutStr \in excludedShortcutsSet
            THEN [ok |-> FALSE, err |-> SHORTCUT_NOT_ALLOWED]
        ELSE IF activeModKeys \cap excludedModKeysSet # {}
            THEN [ok |-> FALSE, err |-> MOD_KEY_NOT_ALLOWED]
        ELSE IF activeNonModKey = ""
            THEN [ok |-> FALSE,
                  err |-> IF activeNonModKey \in excludedKeysSet
                          THEN KEY_NOT_ALLOWED ELSE ""]
        ELSE [ok |-> TRUE, err |-> ""]

\* hook.ts:207-216.  reset: resetRecording() was called (it sets the
\* shortcut, the modifier set and the trigger key to empty); otherwise
\* shortcut is the value given to setShortcut.
updateShortcutFromActiveKeys(modKeys, nonModKey) ==
    IF Cardinality(modKeys) = 0 /\ nonModKey = ""
    THEN [reset |-> TRUE,  shortcut |-> <<>>]
    ELSE [reset |-> FALSE, shortcut |-> getOrderedKeys(nonModKey, modKeys)]

\* The error code after a step that passed the codes of errs to setError.
Committed(errs) == IF errs = <<>> THEN error ELSE errs[Len(errs)]

----------------------------------------------------------------------------
(* The inputs *)

MaxMinModKeys == 1
MaxModKeysInput == 2

MinModKeysInputs == 0 .. MaxMinModKeys
MaxModKeysInputs == {MaxModKeysInput}
ExcludedModKeysInputs == {<<>>, <<"ControlLeft">>}
ExcludedKeysInputs == {<<>>, <<"KeyA">>}
ExcludedShortcutsInputs ==
    {<< <<"Space", "Alt", "Control">>, <<"MetaRight", "KeyA">> >>}

OptionsInputs ==
    [excludedShortcuts : ExcludedShortcutsInputs,
     excludedModKeys   : ExcludedModKeysInputs,
     excludedKeys      : ExcludedKeysInputs,
     minModKeys        : MinModKeysInputs,
     maxModKeys        : MaxModKeysInputs]

\* e.code of the keyboard events ("Escape" has its own actions)
Keycodes ==
    {"ControlLeft", "ControlRight", "AltLeft", "MetaLeft", "KeyA", "Space"}

----------------------------------------------------------------------------
(* hook.ts:24-32: the state after the first render *)

Init ==
    /\ options \in OptionsInputs
    /\ policy = useShortcutRecorder(options)
    /\ isMac \in BOOLEAN
    /\ shortcut = <<>>
    /\ savedShortcut = <<>>
    /\ isRecording = FALSE
    /\ error = NONE
    /\ activeModKeys = {}
    /\ activeNonModKey = ""
    /\ ev = [op |-> "init", key |-> "", prevNonModKey |-> ""]
    /\ fin = "none"
    /\ raised = <<>>
    /\ calls = <<>>

\* hook.ts:218-222
resetRecording ==
    /\ shortcut' = <<>>
    /\ activeModKeys' = {}
    /\ activeNonModKey' = ""

\* stopRecording without the setError of hook.ts:242-245
stopRecording_KeepsError ==
    /\ resetRecording
    /\ isRecording' = FALSE
    /\ error' = error

\* stopRecording without the resetRecording() of hook.ts:240
stopRecording_NoReset ==
    /\ isRecording' = FALSE
    /\ error' = NONE
    /\ UNCHANGED <<shortcut, activeModKeys, activeNonModKey>>

\* hook.ts:239-246
stopRecording ==
    /\ resetRecording
    /\ isRecording' = FALSE
    /\ error' = NONE

\* hook.ts:230-237
StartRecording ==
    /\ isRecording' = TRUE
    /\ error' = NONE
    /\ resetRecording
    /\ ev' = [op |-> "startRecording", key |-> "", prevNonModKey |-> activeNonModKey]
    /\ fin' = "none" /\ raised' = <<NONE>> /\ calls' = <<>>
    /\ UNCHANGED <<savedShortcut, options, policy, isMac>>

\* hook.ts:239-246, called by the user of the hook
StopRecording ==
    /\ stopRecording
    /\ ev' = [op |-> "stopRecording", key |-> "", prevNonModKey |-> activeNonModKey]
    /\ fin' = "none" /\ raised' = <<NONE>> /\ calls' = <<>>
    /\ UNCHANGED <<savedShortcut, options, policy, isMac>>

\* hook.ts:218-222, called by the user of the hook
ResetRecording ==
    /\ resetRecording
    /\ ev' = [op |-> "resetRecording", key |-> "", prevNonModKey |-> activeNonModKey]
    /\ fin' = "none" /\ raised' = <<>> /\ calls' = <<>>
    /\ UNCHANGED <<savedShortcut, isRecording, error, options, policy, isMac>>

\* clearLastRecording without the setSavedShortcut([]) of hook.ts:227
ClearLastRecording_KeepsSaved ==
    /\ stopRecording
    /\ calls' = << <<>> >>
    /\ savedShortcut' = savedShortcut
    /\ ev' = [op |-> "clearLastRecording", key |-> "", prevNonModKey |-> activeNonModKey]
    /\ fin' = "none" /\ raised' = <<NONE>>
    /\ UNCHANGED <<options, policy, isMac>>

\* hook.ts:224-228
ClearLastRecording ==
    /\ stopRecording
    /\ calls' = << <<>> >>
    /\ savedShortcut' = <<>>
    /\ ev' = [op |-> "clearLastRecording", key |-> "", prevNonModKey |-> activeNonModKey]
    /\ fin' = "none" /\ raised' = <<NONE>>
    /\ UNCHANGED <<options, policy, isMac>>

----------------------------------------------------------------------------
(* hook.ts:74-121 handleKeyDown *)

\* keyDownModKeys without the size test of hook.ts:93-95
keyDownModKeys_NoMaxTest(keycode) ==
    IF isModKey(keycode)
    THEN LET modKey == MOD_KEYS_MAP[keycode] IN
         IF modKey \notin excludedModKeysSet
         THEN [newModKeys |-> activeModKeys \cup {modKey}, errs |-> <<>>]
         ELSE [newModKeys |-> activeModKeys, errs |-> <<MOD_KEY_NOT_ALLOWED>>]
    ELSE [newModKeys |-> activeModKeys, errs |-> <<>>]

\* hook.ts:88-103, the updater given to setActiveModKeys: the set it returns
\* and the codes it passes to setError
keyDownModKeys(keycode) ==
    IF isModKey(keycode)
    THEN LET modKey == MOD_KEYS_MAP[keycode] IN
         IF modKey \notin excludedModKeysSet
         THEN IF Cardinality(activeModKeys) >= maxModKeys
              THEN [newModKeys |-> activeModKeys, errs |-> <<MAX_MOD_KEYS_EXCEEDED>>]
              ELSE [newModKeys |-> activeModKeys \cup {modKey}, errs |-> <<>>]
         ELSE [newModKeys |-> activeModKeys, errs |-> <<MOD_KEY_NOT_ALLOWED>>]
    ELSE [newModKeys |-> activeModKeys, errs |-> <<>>]

\* keyDownNonModKey that keeps a trigger key already held
keyDownNonModKey_FirstWins(keycode) ==
    IF ~isModKey(keycode)
    THEN IF keycode \notin excludedKeysSet
         THEN [accept |-> activeNonModKey = "", errs |-> <<>>]
         ELSE [accept |-> FALSE, errs |-> <<KEY_NOT_ALLOWED>>]
    ELSE [accept |-> FALSE, errs |-> <<>>]

\* hook.ts:108-120, the updater given to setActiveNonModKey: whether it
\* takes keycode as the trigger key, and the codes it passes to setError
keyDownNonModKey(keycode) ==
    IF ~isModKey(keycode)
    THEN IF keycode \notin excludedKeysSet
         THEN [accept |-> TRUE,  errs |-> <<>>]
         ELSE [accept |-> FALSE, errs |-> <<KEY_NOT_ALLOWED>>]
    ELSE [accept |-> FALSE, errs |-> <<>>]

\* hook.ts:83-86
KeyDownEscape ==
    /\ isRecording
    /\ stopRecording
    /\ ev' = [op |-> "keydown", key |-> "Escape", prevNonModKey |-> activeNonModKey]
    /\ fin' = "none" /\ raised' = <<NONE>> /\ calls' = <<>>
    /\ UNCHANGED <<savedShortcut, options, policy, isMac>>

KeyDown(keycode) ==
    /\ isRecording
    /\ LET mods == keyDownModKeys(keycode)
           \* hook.ts:104
           upd1 == updateShortcutFromActiveKeys(mods.newModKeys, activeNonModKey)
           key  == keyDownNonModKey(keycode)
           \* hook.ts:111
           upd2 == updateShortcutFromActiveKeys(activeModKeys, keycode)
           reset == upd1.reset \/ (key.accept /\ upd2.reset)
       IN  /\ shortcut' = IF key.accept THEN upd2.shortcut ELSE upd1.shortcut
           /\ activeModKeys' = IF reset THEN {} ELSE mods.newModKeys
           /\ activeNonModKey' = IF reset THEN ""
                                 ELSE IF key.accept THEN keycode
                                 ELSE activeNonModKey
           /\ raised' = mods.errs \o key.errs
           /\ error' = Committed(mods.errs \o key.errs)
    /\ ev' = [op |-> "keydown", key |-> keycode, prevNonModKey |-> activeNonModKey]
    /\ fin' = "none" /\ calls' = <<>>
    /\ UNCHANGED <<savedShortcut, isRecording, options, policy, isMac>>

----------------------------------------------------------------------------
(* hook.ts:123-163 handleKeyUp *)

\* onChange given the modifiers without the trigger key
onChangeArgument_WithoutTrigger == getOrderedKeys("", activeModKeys)

\* hook.ts:139 and hook.ts:155: the argument of onChange
onChangeArgument == shortcut

\* hook.ts:140 and hook.ts:156: the argument of setSavedShortcut
savedArgument == shortcut

\* keyUpMetaFinalizes without the platform test of hook.ts:137
keyUpMetaFinalizes_AnyPlatform(keycode) ==
    /\ isModKey(keycode)
    /\ MOD_KEYS_MAP[keycode] \notin excludedModKeysSet
    /\ MOD_KEYS_MAP[keycode] = "Meta"

\* hook.ts:136-138: the release of Meta that calls isValidShortcut
keyUpMetaFinalizes(keycode) ==
    /\ isModKey(keycode)
    /\ MOD_KEYS_MAP[keycode] \notin excludedModKeysSet
    /\ isMac
    /\ MOD_KEYS_MAP[keycode] = "Meta"

\* keyUpModKeys without the delete of hook.ts:146
keyUpModKeys_NoDelete(keycode) ==
    LET attempt == keyUpMetaFinalizes(keycode)
        valid   == isValidShortcut
    IN  IF attempt /\ valid.ok
        THEN [attempt |-> TRUE, finalized |-> TRUE, newModKeys |-> activeModKeys,
              upd |-> [reset |-> TRUE, shortcut |-> <<>>], errs |-> <<NONE>>]
        ELSE [attempt |-> attempt, finalized |-> FALSE, newModKeys |-> activeModKeys,
              upd |-> updateShortcutFromActiveKeys(activeModKeys, activeNonModKey),
              errs |-> IF attempt /\ valid.err # "" THEN <<valid.err>> ELSE <<>>]

\* hook.ts:134-150, the updater given to setActiveModKeys.  finalized: it
\* took the branch of hook.ts:139-142; otherwise newModKeys is the set it
\* returns and upd the call of hook.ts:148; errs: the codes it passed to
\* setError.
keyUpModKeys(keycode) ==
    LET attempt == keyUpMetaFinalizes(keycode)
        valid   == isValidShortcut
        newModKeys ==
            IF isModKey(keycode) /\ MOD_KEYS_MAP[keycode] \notin excludedModKeysSet
            THEN activeModKeys \ {MOD_KEYS_MAP[keycode]}
            ELSE activeModKeys
    IN  IF attempt /\ valid.ok
        THEN [attempt |-> TRUE, finalized |-> TRUE, newModKeys |-> activeModKeys,
              upd |-> [reset |-> TRUE, shortcut |-> <<>>], errs |-> <<NONE>>]
        ELSE [attempt |-> attempt, finalized |-> FALSE, newModKeys |-> newModKeys,
              upd |-> updateShortcutFromActiveKeys(newModKeys, activeNonModKey),
              errs |-> IF attempt /\ valid.err # "" THEN <<valid.err>> ELSE <<>>]

\* keyUpFinalizes without the alternative prevNonModKey === keycode
keyUpFinalizes_OnlyWithoutTrigger(keycode) ==
    /\ ~isModKey(keycode)
    /\ keycode \notin excludedKeysSet
    /\ activeNonModKey = ""
    /\ Len(shortcut) > 0

\* keyUpFinalizes without any comparison with prevNonModKey
keyUpFinalizes_AnyKey(keycode) ==
    /\ ~isModKey(keycode)
    /\ keycode \notin excludedKeysSet
    /\ Len(shortcut) > 0

\* hook.ts:153: the release of a key that calls isValidShortcut;
\* prevNonModKey is the trigger key of the state before the event
keyUpFinalizes(keycode) ==
    /\ ~isModKey(keycode)
    /\ keycode \notin excludedKeysSet
    /\ (activeNonModKey = "" \/ activeNonModKey = keycode)
    /\ Len(shortcut) > 0

\* keyUpNonModKey that finalizes whatever isValidShortcut returns
keyUpNonModKey_IgnoresValidation(keycode) ==
    IF keyUpFinalizes(keycode)
    THEN [attempt |-> TRUE, finalized |-> TRUE, errs |-> <<NONE>>]
    ELSE [attempt |-> FALSE, finalized |-> FALSE, errs |-> <<>>]

\* hook.ts:152-162, the updater given to setActiveNonModKey.  attempt: it
\* took the branch of hook.ts:154-159 (and returns ""); finalized:
\* isValidShortcut returned true there (hook.ts:155-157).
keyUpNonModKey(keycode) ==
    LET attempt == keyUpFinalizes(keycode)
        valid   == isValidShortcut
    IN  IF attempt
        THEN [attempt |-> TRUE, finalized |-> valid.ok,
              errs |-> IF valid.ok THEN <<NONE>>
                       ELSE IF valid.err # "" THEN <<valid.err>> ELSE <<>>]
        ELSE [attempt |-> FALSE, finalized |-> FALSE, errs |-> <<>>]

\* hook.ts:132
KeyUpEscape ==
    /\ isRecording
    /\ ev' = [op |-> "keyup", key |-> "Escape", prevNonModKey |-> activeNonModKey]
    /\ fin' = "none" /\ raised' = <<>> /\ calls' = <<>>
    /\ UNCHANGED <<shortcut, savedShortcut, isRecording, error, activeModKeys,
                   activeNonModKey, options, policy, isMac>>

KeyUp(keycode) ==
    /\ isRecording
    /\ LET mods == keyUpModKeys(keycode)
           key  == keyUpNonModKey(keycode)
           \* stopRecording() was called (hook.ts:141, hook.ts:157)
           stopped == mods.finalized \/ key.finalized
           reset == mods.upd.reset \/ stopped
       IN  /\ calls' = (IF mods.finalized THEN <<onChangeArgument>> ELSE <<>>)
                         \o (IF key.finalized THEN <<onChangeArgument>> ELSE <<>>)
           /\ savedShortcut' = IF stopped THEN savedArgument ELSE savedShortcut
           /\ isRecording' = ~stopped
           /\ shortcut' = IF reset THEN <<>> ELSE mods.upd.shortcut
           /\ activeModKeys' = IF reset THEN {} ELSE mods.newModKeys
           /\ activeNonModKey' = IF reset \/ key.attempt THEN "" ELSE activeNonModKey
           /\ raised' = mods.errs \o key.errs
           /\ error' = Committed(mods.errs \o key.errs)
           /\ fin' = IF stopped THEN "ok"
                     ELSE IF mods.attempt \/ key.attempt THEN "fail"
                     ELSE "none"
    /\ ev' = [op |-> "keyup", key |-> keycode, prevNonModKey |-> activeNonModKey]
    /\ UNCHANGED <<options, policy, isMac>>

----------------------------------------------------------------------------

Next ==
    \/ StartRecording
    \/ StopRecording
    \/ ResetRecording
    \/ ClearLastRecording
    \/ KeyDownEscape
    \/ KeyUpEscape
    \/ \E keycode \in Keycodes : KeyDown(keycode)
    \/ \E keycode \in Keycodes : KeyUp(keycode)

Spec == Init /\ [][Next]_vars

----------------------------------------------------------------------------
(* Vocabulary of the properties *)

CanonicalModifiers == {"Control", "Shift", "Alt", "Meta"}

\* the tokens of seq that are not canonical modifier names
TriggerPositions(seq) == {i \in DOMAIN seq : seq[i] \notin CanonicalModifiers}

Front(seq) == SubSeq(seq, 1, Len(seq) - 1)

\* seq is the canonical form of an entry of options.excludedShortcuts that
\* the policy compilation kept
ExcludedCombination(seq) ==
    \E j \in DOMAIN options.excludedShortcuts :
        LET entry == options.excludedShortcuts[j]
            mods  == {MOD_KEYS_MAP[k] : k \in {x \in Elems(entry) : isModKey(x)}}
            trigs == {x \in Elems(entry) : ~isModKey(x)}
        IN  /\ compileShortcut(options, entry, 1, {}, 0, "") # {}
            /\ Len(seq) = Cardinality(mods) + 1
            /\ Elems(Front(seq)) = mods
            /\ seq[Len(seq)] \in trigs

\* the modifiers and trigger key held, as a sequence in canonical order
HeldCombination ==
    [i \in 1 .. Cardinality(activeModKeys) |->
        CHOOSE m \in activeModKeys :
            Cardinality({n \in activeModKeys :
                \E a, b \in 1 .. 4 : /\ MOD_KEYS_ORDER[a] = n
                                    /\ MOD_KEYS_ORDER[b] = m
                                    /\ a < b}) = i - 1]
        \o (IF activeNonModKey = "" THEN <<>> ELSE <<activeNonModKey>>)

\* the first rule of the finalization algorithm that the held keys violate,
\* "" when they violate none
ViolatedRule ==
    IF Cardinality(activeModKeys) < minModKeys THEN MIN_MOD_KEYS_REQUIRED
    ELSE IF Cardinality(activeModKeys) > maxModKeys THEN MAX_MOD_KEYS_EXCEEDED
    ELSE IF ExcludedCombination(HeldCombination) THEN SHORTCUT_NOT_ALLOWED
    ELSE IF activeModKeys \cap excludedModKeysSet # {} THEN MOD_KEY_NOT_ALLOWED
    ELSE IF activeNonModKey = "" THEN KEY_NOT_ALLOWED
    ELSE ""

KeysUnchanged ==
    /\ activeModKeys' = activeModKeys
    /\ activeNonModKey' = activeNonModKey
    /\ shortcut' = shortcut

----------------------------------------------------------------------------
(* C1: savedShortcut is empty, or k distinct canonical modifiers with      *)
(* minModKeys <= k <= maxModKeys (clamped) followed by exactly one         *)
(* non-modifier key, with no excluded key and no excluded modifier.        *)
C1_SavedShortcutWellFormed ==
    \/ savedShortcut = <<>>
    \/ LET n == Len(savedShortcut)
           mods == Front(savedShortcut)
       IN  /\ Elems(mods) \subseteq CanonicalModifiers
           /\ Cardinality(Elems(mods)) = n - 1
           /\ minModKeys <= n - 1
           /\ n - 1 <= maxModKeys
           /\ ~isModKey(savedShortcut[n])
           /\ savedShortcut[n] \notin excludedKeysSet
           /\ Elems(mods) \cap excludedModKeysSet = {}

C1_Witness ==
    /\ Len(savedShortcut) = maxModKeys + 1
    /\ minModKeys >= 1
    /\ excludedKeysSet # {}
    /\ excludedModKeysSet # {}

C3_TriggerReleaseSavesShortcut ==
    [][(/\ isRecording
        /\ ev'.op = "keyup"
        /\ activeNonModKey # ""
        /\ ev'.key = activeNonModKey
        /\ ViolatedRule = "")
          => /\ savedShortcut' = shortcut
             /\ ~isRecording']_vars

C3_Witness ==
    /\ ev.op = "keyup"
    /\ ev.key = "Space"
    /\ ev.prevNonModKey = "Space"
    /\ fin = "ok"
    /\ ~isRecording
    /\ savedShortcut = <<"Alt", "Meta", "Space">>

(* C4: onChange is called exactly once by a release that finalizes, with   *)
(* the shortcut that becomes savedShortcut, and by no press, failed        *)
(* finalization, Escape, startRecording, stopRecording or resetRecording.  *)
C4_OnChangeOncePerFinalization ==
    [][IF ev'.op = "keyup" /\ isRecording /\ ~isRecording'
       THEN calls' = <<savedShortcut'>>
       ELSE ev'.op # "clearLastRecording" => calls' = <<>>]_vars

C4_Witness ==
    /\ ev.op = "keyup"
    /\ fin = "ok"
    /\ calls = <<savedShortcut>>
    /\ Len(savedShortcut) >= 2

(* C5: after a failed finalization attempt the active modifier set, the    *)
(* trigger key and the in-progress shortcut are empty, the recorder is     *)
(* still Recording and error is the kind of the violated rule (the kind    *)
(* of the missing-trigger rule is the subject of C7 and is left open       *)
(* here).                                                                  *)
C5_FailedFinalizationDiscards ==
    [][(ev'.op = "keyup" /\ fin' = "fail")
          => /\ activeModKeys' = {}
             /\ activeNonModKey' = ""
             /\ shortcut' = <<>>
             /\ isRecording'
             /\ ViolatedRule # KEY_NOT_ALLOWED => error' = ViolatedRule]_vars

(* C6: the finalization checks run in the order min-count, max-count,      *)
(* excluded combination, ...: an attempt fails with MIN_MOD_KEYS_REQUIRED  *)
(* iff fewer than minModKeys modifiers are active, with                    *)
(* MAX_MOD_KEYS_EXCEEDED iff more than maxModKeys are, and otherwise with  *)
(* SHORTCUT_NOT_ALLOWED when the combination is excluded.                  *)
C6_ValidationOrder ==
    [][(ev'.op = "keyup" /\ fin' # "none")
          => LET c == Cardinality(activeModKeys) IN
             /\ (fin' = "fail" /\ raised' = <<MIN_MOD_KEYS_REQUIRED>>)
                    <=> c < minModKeys
             /\ (fin' = "fail" /\ raised' = <<MAX_MOD_KEYS_EXCEEDED>>)
                    <=> c > maxModKeys
             /\ ViolatedRule = SHORTCUT_NOT_ALLOWED
                    => (fin' = "fail" /\ raised' = <<SHORTCUT_NOT_ALLOWED>>)]_vars

\* the attempt that fails the min-count rule has no trigger key either
C6_Witness ==
    /\ fin = "fail"
    /\ raised = <<MIN_MOD_KEYS_REQUIRED>>
    /\ error = MIN_MOD_KEYS_REQUIRED
    /\ ev.prevNonModKey = ""

(* C7: a finalization attempt with no trigger key set, and no rule of      *)
(* higher priority violated, fails with error KEY_NOT_ALLOWED.             *)
C7_MissingTriggerReported ==
    [][(ev'.op = "keyup" /\ fin' # "none" /\ ViolatedRule = KEY_NOT_ALLOWED)
          => (fin' = "fail" /\ error' = KEY_NOT_ALLOWED)]_vars

(* C8: while Recording, a press of an excluded modifier sets               *)
(* MOD_KEY_NOT_ALLOWED and a press of an excluded key sets                 *)
(* KEY_NOT_ALLOWED; both leave the active modifier set, the trigger key    *)
(* and the in-progress shortcut unchanged, and no excluded key or modifier *)
(* ever appears in shortcut.                                               *)
C8_ExcludedPressIgnored ==
    /\ [][(ev'.op = "keydown" /\ ev'.key # "Escape")
            => /\ (isModKey(ev'.key) /\ MOD_KEYS_MAP[ev'.key] \in excludedModKeysSet)
                     => (error' = MOD_KEY_NOT_ALLOWED /\ KeysUnchanged)
               /\ (~isModKey(ev'.key) /\ ev'.key \in excludedKeysSet)
                     => (error' = KEY_NOT_ALLOWED /\ KeysUnchanged)]_vars
    /\ [](Elems(shortcut) \cap (excludedKeysSet \cup excludedModKeysSet) = {})

(* C9: while Recording with exactly maxModKeys modifiers active, a press   *)
(* of a (non-excluded) modifier that is not in the active set sets         *)
(* MAX_MOD_KEYS_EXCEEDED and leaves the active modifier set, the trigger   *)
(* key and the in-progress shortcut unchanged.                             *)
C9_ModifierBeyondMaxIgnored ==
    [][(/\ ev'.op = "keydown"
        /\ isModKey(ev'.key)
        /\ MOD_KEYS_MAP[ev'.key] \notin excludedModKeysSet
        /\ MOD_KEYS_MAP[ev'.key] \notin activeModKeys
        /\ Cardinality(activeModKeys) = maxModKeys)
          => (error' = MAX_MOD_KEYS_EXCEEDED /\ KeysUnchanged)]_vars

(* C10: the shortcut holds at most one trigger key, and while a trigger    *)
(* key t is held a press of a non-excluded non-modifier key u replaces it: *)
(* the shortcut becomes the unchanged modifiers followed by u alone.       *)
C10_LastTriggerWins ==
    /\ [][(/\ ev'.op = "keydown"
           /\ ev'.key # "Escape"
           /\ ~isModKey(ev'.key)
           /\ ev'.key \notin excludedKeysSet
           /\ activeNonModKey # "")
             => /\ activeNonModKey' = ev'.key
                /\ activeModKeys' = activeModKeys
                /\ shortcut' = Front(shortcut) \o <<ev'.key>>]_vars
    /\ [](Cardinality(TriggerPositions(shortcut)) <= 1)

C10_Witness ==
    /\ ev.op = "keydown"
    /\ ev.key = "Space"
    /\ ev.prevNonModKey = "KeyA"
    /\ activeNonModKey = "Space"
    /\ shortcut = <<"Alt", "Space">>

(* C11: on a Mac-class platform the release of a held Meta, when the held  *)
(* keys pass validation, finalizes before Meta is removed: savedShortcut   *)
(* becomes the pre-release shortcut, which contains Meta, onChange gets    *)
(* it and the recorder is Idle.  On another platform a release of Meta     *)
(* only removes Meta and never finalizes.                                  *)
C11_MetaReleaseFinalizesOnMac ==
    [][(ev'.op = "keyup" /\ isModKey(ev'.key) /\ MOD_KEYS_MAP[ev'.key] = "Meta")
          => IF isMac
             THEN ("Meta" \in activeModKeys /\ ViolatedRule = "")
                      => /\ savedShortcut' = shortcut
                         /\ \E i \in DOMAIN savedShortcut' : savedShortcut'[i] = "Meta"
                         /\ calls' = <<shortcut>>
                         /\ ~isRecording'
             ELSE /\ fin' = "none"
                  /\ calls' = <<>>
                  /\ savedShortcut' = savedShortcut
                  /\ isRecording'
                  /\ activeModKeys' = activeModKeys \ {"Meta"}
                  /\ activeNonModKey' = activeNonModKey]_vars

C11_Witness ==
    /\ isMac
    /\ ev.op = "keyup"
    /\ ev.key = "MetaLeft"
    /\ fin = "ok"
    /\ ~isRecording
    /\ savedShortcut = <<"Alt", "Meta", "KeyA">>
    /\ calls = <<savedShortcut>>

(* C12: a press of Escape while Recording does what stopRecording() does:   *)
(* the recorder is Idle, the active modifier set, the trigger key and the  *)
(* in-progress shortcut are empty, error is NONE, savedShortcut is         *)
(* unchanged and onChange is not called; a release of Escape changes       *)
(* nothing.                                                                *)
C12_EscapeStopsRecording ==
    [][(ev'.key = "Escape")
          => IF ev'.op = "keydown"
             THEN /\ ~isRecording'
                  /\ activeModKeys' = {}
                  /\ activeNonModKey' = ""
                  /\ shortcut' = <<>>
                  /\ error' = NONE
                  /\ savedShortcut' = savedShortcut
                  /\ calls' = <<>>
             ELSE /\ UNCHANGED <<shortcut, savedShortcut, isRecording, error,
                                 activeModKeys, activeNonModKey>>
                  /\ calls' = <<>>]_vars

\* Escape pressed with a trigger key held, an error shown and a shortcut saved
C12_Witness ==
    /\ ev.op = "keydown"
    /\ ev.key = "Escape"
    /\ ev.prevNonModKey = "Space"
    /\ ~isRecording
    /\ error = NONE
    /\ savedShortcut # <<>>

(* C13: whenever the recorder is Idle the active modifier set, the trigger *)
(* key and the in-progress shortcut are empty: initially and after every   *)
(* successful finalization, Escape, stopRecording and clearLastRecording.  *)
C13_IdleHasNoActiveKeys ==
    ~isRecording =>
        /\ activeModKeys = {}
        /\ activeNonModKey = ""
        /\ shortcut = <<>>

\* Idle after a Meta release that finalized with two modifiers held
C13_Witness ==
    /\ ~isRecording
    /\ ev.op = "keyup"
    /\ ev.key = "MetaLeft"
    /\ fin = "ok"
    /\ Len(savedShortcut) = 3
    /\ activeModKeys = {}

(* C14: savedShortcut changes only in a release that finalizes with no     *)
(* rule violated or in clearLastRecording; every other call, press,        *)
(* release and failed finalization leaves it unchanged.                    *)
C14_SavedChangesOnlyOnFinalize ==
    [][savedShortcut' # savedShortcut
          => \/ ev'.op = "clearLastRecording"
             \/ /\ ev'.op = "keyup"
                /\ ev'.key # "Escape"
                /\ isRecording
                /\ ViolatedRule = ""
                /\ fin' = "ok"]_vars

\* a saved shortcut kept through a later session's failed finalization
C14_Witness ==
    /\ isRecording
    /\ savedShortcut # <<>>
    /\ ev.op = "keyup"
    /\ fin = "fail"
    /\ error = MIN_MOD_KEYS_REQUIRED

(* C15: clearLastRecording(), in any state, leaves the recorder Idle with  *)
(* savedShortcut, the in-progress shortcut and the active keys empty and   *)
(* error NONE, and calls onChange exactly once, with the empty sequence.   *)
C15_ClearLastRecording ==
    ev.op = "clearLastRecording" =>
        /\ ~isRecording
        /\ savedShortcut = <<>>
        /\ shortcut = <<>>
        /\ activeModKeys = {}
        /\ activeNonModKey = ""
        /\ error = NONE
        /\ calls = << <<>> >>

\* called while Recording with a trigger key held
C15_Witness ==
    /\ ev.op = "clearLastRecording"
    /\ ev.prevNonModKey = "KeyA"
    /\ savedShortcut = <<>>
    /\ calls = << <<>> >>

(* C16: shortcut and savedShortcut are always in canonical form: the       *)
(* modifiers present, without duplicates, in the order Control, Shift,     *)
(* Alt, Meta, followed by at most one trigger key token, whatever the      *)
(* order of the presses.                                                   *)
ModifierRank(m) == CHOOSE r \in 1 .. 4 : <<"Control", "Shift", "Alt", "Meta">>[r] = m

IsCanonicalForm(seq) ==
    /\ \A i \in DOMAIN seq : seq[i] \notin CanonicalModifiers => i = Len(seq)
    /\ \A i, j \in DOMAIN seq :
          (i < j /\ seq[i] \in CanonicalModifiers /\ seq[j] \in CanonicalModifiers)
              => ModifierRank(seq[i]) < ModifierRank(seq[j])

C16_CanonicalForm ==
    /\ IsCanonicalForm(shortcut)
    /\ IsCanonicalForm(savedShortcut)

\* Meta pressed first, Control pressed last
C16_Witness ==
    /\ ev.op = "keydown"
    /\ ev.key = "ControlRight"
    /\ shortcut = <<"Control", "Meta", "Space">>
    /\ savedShortcut = <<"Alt", "Meta", "KeyA">>

\* the raw identifiers the documentation lists for each canonical modifier
ModifierVariants ==
    [m \in CanonicalModifiers |->
        {m, m \o "Left", m \o "Right"}
            \cup (IF m = "Meta" THEN {"OSLeft", "OSRight"} ELSE {})]

(* C17: every raw identifier of a modifier (left, right, bare name, and    *)
(* OSLeft/OSRight for Meta) is classified as a modifier and mapped to its  *)
(* canonical name, so while recording a press of one variant has the same  *)
(* effect as a press of any other variant of that modifier; every other    *)
(* identifier is a trigger candidate.                                      *)
C17_ModifierVariantsNormalized ==
    /\ \A m \in CanonicalModifiers : \A id \in ModifierVariants[m] :
          /\ isModKey(id)
          /\ MOD_KEYS_MAP[id] = m
          /\ isRecording =>
                \A other \in ModifierVariants[m] :
                    /\ keyDownModKeys(id) = keyDownModKeys(other)
                    /\ keyDownNonModKey(id) = keyDownNonModKey(other)
    /\ \A id \in Keycodes \ UNION {ModifierVariants[m] : m \in CanonicalModifiers} :
          ~isModKey(id)

----------------------------------------------------------------------------
(* The policy of hook.ts:21-70 over a wider range of options: limits       *)
(* outside 0 .. 4, enough excluded modifiers to make minModKeys            *)
(* unsatisfiable, and excludedShortcuts entries of every kind that         *)
(* hook.ts:48-59 tells apart.  The recorder is started and keys are        *)
(* pressed against each policy.                                            *)

MinRawModKeys == 0 - 1
MaxRawModKeys == 5

RawModKeysInputs == MinRawModKeys .. MaxRawModKeys
PolicyExcludedModKeysInputs ==
    {<<>>, <<"ControlLeft", "KeyA">>, <<"Control", "ShiftRight", "Alt">>}
PolicyExcludedKeysInputs == {<<"KeyA", "Shift">>}
PolicyExcludedShortcutsInputs ==
    {<< <<"Space", "Alt", "Control">>,
        <<"MetaRight", "Space">>,
        <<"ControlLeft", "AltLeft", "MetaLeft", "Space">>,
        <<"Space", "Enter">>,
        <<"MetaLeft", "KeyA">>,
        <<"Alt">>,
        <<"Enter">>,
        <<>> >>}

PolicyOptionsInputs ==
    [excludedShortcuts : PolicyExcludedShortcutsInputs,
     excludedModKeys   : PolicyExcludedModKeysInputs,
     excludedKeys      : PolicyExcludedKeysInputs,
     minModKeys        : RawModKeysInputs,
     maxModKeys        : RawModKeysInputs]

PolicyKeycodes == {"ControlLeft", "ShiftRight", "AltLeft", "Space"}

InitPolicy ==
    /\ options \in PolicyOptionsInputs
    /\ policy = useShortcutRecorder(options)
    /\ isMac = FALSE
    /\ shortcut = <<>>
    /\ savedShortcut = <<>>
    /\ isRecording = FALSE
    /\ error = NONE
    /\ activeModKeys = {}
    /\ activeNonModKey = ""
    /\ ev = [op |-> "init", key |-> "", prevNonModKey |-> ""]
    /\ fin = "none"
    /\ raised = <<>>
    /\ calls = <<>>

NextPolicy ==
    \/ StartRecording
    \/ StopRecording
    \/ \E keycode \in PolicyKeycodes : KeyDown(keycode)

SpecPolicy == InitPolicy /\ [][NextPolicy]_vars

\* the canonical names of the modifiers among the configured excludedModKeys
ConfiguredExcludedModifiers ==
    {m \in CanonicalModifiers :
        \E i \in DOMAIN options.excludedModKeys :
            /\ isModKey(options.excludedModKeys[i])
            /\ MOD_KEYS_MAP[options.excludedModKeys[i]] = m}

(* C20: for every pair of integer inputs the effective limits satisfy      *)
(* 0 <= minModKeys <= maxModKeys <= 4: maxModKeys outside 0 .. 4 becomes   *)
(* 4, then minModKeys that is negative or above the clamped maxModKeys     *)
(* becomes 0, and in-range values are kept.                                *)
C20_LimitsClamped ==
    LET effMax == IF options.maxModKeys \in 0 .. 4 THEN options.maxModKeys ELSE 4
        effMin == IF options.minModKeys \in 0 .. effMax THEN options.minModKeys ELSE 0
    IN  /\ maxModKeys = effMax
        /\ minModKeys = effMin
        /\ 0 <= minModKeys
        /\ minModKeys <= maxModKeys
        /\ maxModKeys <= 4

\* a minimum above an in-range maximum, with the recorder used afterwards
C20_Witness ==
    /\ options.maxModKeys = 2
    /\ options.minModKeys = 3
    /\ maxModKeys = 2
    /\ minModKeys = 0
    /\ ev.op = "keydown"

(* C19: if 4 minus the number of distinct excluded canonical modifiers is  *)
(* less than the clamped minModKeys, the effective excluded-modifier set   *)
(* is empty and no press is rejected with MOD_KEY_NOT_ALLOWED; otherwise   *)
(* the effective set is exactly the canonical names of the configured      *)
(* excluded modifiers.                                                     *)
C19_DegeneratePolicyGuard ==
    IF 4 - Cardinality(ConfiguredExcludedModifiers) < minModKeys
    THEN /\ excludedModKeysSet = {}
         /\ \A i \in DOMAIN raised : raised[i] # MOD_KEY_NOT_ALLOWED
         /\ error # MOD_KEY_NOT_ALLOWED
    ELSE excludedModKeysSet = ConfiguredExcludedModifiers

\* three modifiers excluded, two required: the press of an excluded one is taken
C19_Witness ==
    /\ options.excludedModKeys = <<"Control", "ShiftRight", "Alt">>
    /\ minModKeys = 2
    /\ excludedModKeysSet = {}
    /\ ev.op = "keydown"
    /\ ev.key = "ControlLeft"
    /\ "Control" \in activeModKeys

\* the modifiers and the positions of the non-modifier keys of an entry
EntryModifiers(entry) ==
    {MOD_KEYS_MAP[entry[i]] : i \in {k \in DOMAIN entry : isModKey(entry[k])}}

EntryTriggerPositions(entry) == {i \in DOMAIN entry : ~isModKey(entry[i])}

EntryContributes(entry) ==
    /\ Cardinality(EntryTriggerPositions(entry)) = 1
    /\ \A i \in EntryTriggerPositions(entry) :
          \A j \in DOMAIN options.excludedKeys : entry[i] # options.excludedKeys[j]
    /\ EntryModifiers(entry) \cap ConfiguredExcludedModifiers = {}
    /\ Cardinality(EntryModifiers(entry)) >= minModKeys
    /\ Cardinality(EntryModifiers(entry)) <= maxModKeys

EntryCombination(entry) ==
    Join(getOrderedKeys(entry[CHOOSE i \in EntryTriggerPositions(entry) : TRUE],
                        EntryModifiers(entry)))

(* C18: an excludedShortcuts entry contributes to the compiled set iff it  *)
(* has exactly one non-modifier key, that key is not in excludedKeys, none *)
(* of its modifiers is excluded and its number of distinct modifiers lies  *)
(* in minModKeys .. maxModKeys; every other entry is dropped.              *)
C18_CompiledExcludedShortcuts ==
    /\ \A j \in DOMAIN options.excludedShortcuts :
          (compileShortcut(options, options.excludedShortcuts[j], 1, {}, 0, "") # {})
              <=> EntryContributes(options.excludedShortcuts[j])
    /\ excludedShortcutsSet =
          {EntryCombination(options.excludedShortcuts[j]) :
              j \in {k \in DOMAIN options.excludedShortcuts :
                        EntryContributes(options.excludedShortcuts[k])}}

----------------------------------------------------------------------------
(* C21: while Recording with a trigger key set, the release of another     *)
(* non-modifier key does not attempt finalization and leaves shortcut, the *)
(* active modifier set, the trigger key, savedShortcut, error and          *)
(* isRecording unchanged.                                                  *)
C21_OtherKeyReleaseIgnored ==
    [][(/\ ev'.op = "keyup"
        /\ isRecording
        /\ activeNonModKey # ""
        /\ ~isModKey(ev'.key)
        /\ ev'.key # activeNonModKey)
          => /\ fin' = "none"
             /\ calls' = <<>>
             /\ raised' = <<>>
             /\ UNCHANGED <<shortcut, activeModKeys, activeNonModKey,
                            savedShortcut, error, isRecording>>]_vars

\* KeyA was replaced by Space as the trigger key and is then released
C21_Witness ==
    /\ ev.op = "keyup"
    /\ ev.key = "KeyA"
    /\ ev.prevNonModKey = "Space"
    /\ options.excludedKeys = <<>>
    /\ isRecording
    /\ activeNonModKey = "Space"
    /\ shortcut = <<"Alt", "Space">>

(* C22: a press of a non-excluded modifier reports MAX_MOD_KEYS_EXCEEDED   *)
(* only when adding it would make the active modifier count exceed         *)
(* maxModKeys; a press of a modifier already in the active set leaves the  *)
(* set and the error unchanged, even when the set holds maxModKeys.        *)
C22_MaxExceededOnlyWhenAdding ==
    [][(/\ ev'.op = "keydown"
        /\ isRecording
        /\ isModKey(ev'.key)
        /\ MOD_KEYS_MAP[ev'.key] \notin excludedModKeysSet)
          => LET modKey == MOD_KEYS_MAP[ev'.key] IN
             /\ (\E i \in DOMAIN raised' : raised'[i] = MAX_MOD_KEYS_EXCEEDED)
                    <=> Cardinality(activeModKeys \cup {modKey}) > maxModKeys
             /\ modKey \in activeModKeys
                    => /\ activeModKeys' = activeModKeys
                       /\ error' = error]_vars

(* C23: while Recording, the release of a held, non-excluded modifier      *)
(* other than Meta on a Mac removes exactly that modifier from the active  *)
(* set, leaves the trigger key, savedShortcut and isRecording unchanged,   *)
(* and shortcut becomes the remaining modifiers in order followed by the   *)
(* trigger key (empty when nothing remains).                               *)
C23_ModifierReleaseRemoves ==
    [][(/\ ev'.op = "keyup"
        /\ isRecording
        /\ isModKey(ev'.key)
        /\ MOD_KEYS_MAP[ev'.key] \in activeModKeys
        /\ MOD_KEYS_MAP[ev'.key] \notin excludedModKeysSet
        /\ ~(isMac /\ MOD_KEYS_MAP[ev'.key] = "Meta"))
          => /\ activeModKeys' = activeModKeys \ {MOD_KEYS_MAP[ev'.key]}
             /\ activeNonModKey' = activeNonModKey
             /\ savedShortcut' = savedShortcut
             /\ isRecording'
             /\ fin' = "none"
             /\ calls' = <<>>
             /\ shortcut' = HeldCombination'
             /\ (activeModKeys' = {} /\ activeNonModKey' = "") => shortcut' = <<>>]_vars

\* Alt released while Control and the trigger key stay held
C23_Witness ==
    /\ ev.op = "keyup"
    /\ ev.key = "AltLeft"
    /\ ev.prevNonModKey = "Space"
    /\ isRecording
    /\ activeModKeys = {"Control"}
    /\ activeNonModKey = "Space"
    /\ shortcut = <<"Control", "Space">>

(* C24: in every reachable state shortcut lists exactly the modifiers of   *)
(* the active set, in order, followed by the current trigger key, and is   *)
(* empty iff both are empty.                                               *)
C24_DisplayConsistent ==
    /\ shortcut = HeldCombination
    /\ shortcut = <<>> <=> (activeModKeys = {} /\ activeNonModKey = "")

(* C25: the active modifier set never holds more than maxModKeys           *)
(* modifiers, so finalization never reports MAX_MOD_KEYS_EXCEEDED: that    *)
(* error is only ever produced by a press.                                 *)
C25_ModifierCountBounded ==
    /\ Cardinality(activeModKeys) <= maxModKeys
    /\ (\E i \in DOMAIN raised : raised[i] = MAX_MOD_KEYS_EXCEEDED) => ev.op = "keydown"

\* a third modifier refused with maxModKeys held
C25_Witness ==
    /\ ev.op = "keydown"
    /\ ev.key = "MetaLeft"
    /\ error = MAX_MOD_KEYS_EXCEEDED
    /\ maxModKeys = 2
    /\ activeModKeys = {"Control", "Alt"}

====
